---- MODULE Spec2Model ----
(***************************************************************************)
(* huffpuff: static Huffman encoder for delimiter-separated strings.       *)
(* The model follows main() of huffpuff.c: read_strings, leaf creation,    *)
(* huffman_build_tree (with huffman_generate_codes), encode_strings,       *)
(* write_huffman_codes and write_huffman_strings.                          *)
(***************************************************************************)
EXTENDS Integers, Sequences, FiniteSets, Bags, TLC

(***************************************************************************)
(* Bounds of the explored inputs.                                          *)
(***************************************************************************)
\* longest input byte stream read by read_strings
MaxInput == 4
\* number of symbols that may carry a weight in an enumerated frequency table
MaxSyms == 5
\* largest weight of a symbol in an enumerated frequency table
MaxWeight == 3

\* longest line of the input files explored for the preview comments
MaxText == 42

(***************************************************************************)
(* Program constants.                                                      *)
(***************************************************************************)
STRING_SEPARATOR == 10
BACKSLASH == 92
NUL == 0
EOF == -1
\* 2^30; an int holds bits 0..31, bit 31 being the sign
Pow30 == 1073741824
IntBits == 32
\* largest value of one .db byte of the node table
MaxOffset == 255

Byte == 0..255

NoNode == 0

(***************************************************************************)
(* 32-bit int arithmetic of struct huffman_code.code.                      *)
(***************************************************************************)
RECURSIVE Pow2(_)
Pow2(n) == IF n = 0 THEN 1 ELSE 2 * Pow2(n - 1)

\* code << 1 on a 32-bit two's complement int: bit 31 is shifted out
Shl1(c) ==
    LET low30 == c % Pow30
        bit30 == (c \div Pow30) % 2
    IN IF bit30 = 1 THEN (low30 - Pow30) * 2 ELSE low30 * 2

\* code | 1
Or1(c) == IF c % 2 = 0 THEN c + 1 ELSE c

\* (code >> i) & 1 for 0 <= i < 32 (arithmetic shift)
BitAt(c, i) ==
    IF i = IntBits - 1 THEN (IF c < 0 THEN 1 ELSE 0)
    ELSE (c \div Pow2(i)) % 2

(***************************************************************************)
(* huffman_create_node: appends a node to the arena and returns the arena; *)
(* the new node is the last one.  code is unset until                      *)
(* huffman_generate_codes writes it (it is never read before).             *)
(***************************************************************************)
huffman_create_node(h, symbol, weight, left, right) ==
    Append(h, [symbol |-> symbol, weight |-> weight, left |-> left,
               right |-> right, code |-> 0, length |-> 0])

(***************************************************************************)
(* huffman_generate_codes: preorder walk assigning (code, length).         *)
(***************************************************************************)
RECURSIVE huffman_generate_codes(_, _, _, _)
huffman_generate_codes(h, node, length, code) ==
    IF node = NoNode THEN h
    ELSE LET h1 == [h EXCEPT ![node].length = length, ![node].code = code]
         IN IF h[node].symbol = -1
            THEN LET length1 == length + 1
                     code1 == Shl1(code)
                     h2 == huffman_generate_codes(h1, h[node].left, length1, code1)
                 IN huffman_generate_codes(h2, h[node].right, length1, Or1(code1))
            ELSE h1

(***************************************************************************)
(* The bubblesort of huffman_build_tree.  nodes is the C array, held as a  *)
(* sequence: C index k is element k + 1.                                   *)
(***************************************************************************)
\* mutant: the comparison reversed, which sorts the lightest nodes first
BubbleOutOfOrder_Reversed(h, nodes, k) ==
    h[nodes[k + 1]].weight > h[nodes[k + 2]].weight

\* the comparison of the inner loop
BubbleOutOfOrder(h, nodes, k) ==
    h[nodes[k + 1]].weight < h[nodes[k + 2]].weight

\* the body of the inner loop: swap nodes[k] and nodes[k+1] when out of order
BubbleStep(h, nodes, k) ==
    IF BubbleOutOfOrder(h, nodes, k)
    THEN [nodes EXCEPT ![k + 1] = nodes[k + 2], ![k + 2] = nodes[k + 1]]
    ELSE nodes

\* the inner loop body for k = lo, lo+1, .., hi in this order; the range is
\* halved, and the first half is evaluated (its length inspected) before
\* the second starts, which keeps the evaluation shallow
RECURSIVE BubbleRange(_, _, _, _)
BubbleRange(h, nodes, lo, hi) ==
    IF lo > hi THEN nodes
    ELSE IF lo = hi THEN BubbleStep(h, nodes, lo)
    ELSE LET mid == (lo + hi) \div 2
             first == BubbleRange(h, nodes, lo, mid)
         IN IF Len(first) = Len(nodes)
            THEN BubbleRange(h, first, mid + 1, hi) ELSE first

\* for (k=0; k<j; k++)
BubblePass(h, nodes, j) == BubbleRange(h, nodes, 0, j - 1)

\* the passes j = hi, hi-1, .., lo in this order
RECURSIVE BubblePasses(_, _, _, _)
BubblePasses(h, nodes, hi, lo) ==
    IF hi < lo THEN nodes
    ELSE IF hi = lo THEN BubblePass(h, nodes, hi)
    ELSE LET mid == (lo + hi) \div 2
             first == BubblePasses(h, nodes, hi, mid + 1)
         IN IF Len(first) = Len(nodes)
            THEN BubblePasses(h, first, mid, lo) ELSE first

\* for (j=i; j>0; j--)
BubbleSort(h, nodes, i) == BubblePasses(h, nodes, i, 1)

\* the two nodes combined in round i, after sorting: <<n1, n2>>
LowestTwo(nodes, i) == <<nodes[i + 1], nodes[i]>>

(***************************************************************************)
(* The merge loop of huffman_build_tree.  The state is [h, nodes, log];    *)
(* log records, per merge, the weights of the two combined nodes and of    *)
(* the nodes left in the working set.                                      *)
(***************************************************************************)
\* the weight of the interior node combining n1 and n2
CombinedWeight(h, n1, n2) == h[n1].weight + h[n2].weight

\* the body of the loop for one i: sort, combine the two lowest
MergeStep(st, i) ==
    LET sorted == BubbleSort(st.h, st.nodes, i)
        pair == LowestTwo(sorted, i)
        n1 == pair[1]
        n2 == pair[2]
        w == CombinedWeight(st.h, n1, n2)
        h1 == huffman_create_node(st.h, -1, w, n1, n2)
        entry == [w1 |-> st.h[n1].weight, w2 |-> st.h[n2].weight, sum |-> w,
                  rest |-> [x \in 1..(i - 1) |-> st.h[sorted[x]].weight]]
    IN [h |-> h1,
        nodes |-> [sorted EXCEPT ![i] = Len(h1)],
        log |-> Append(st.log, entry)]

\* the rounds i = hi, hi-1, .., lo in this order
RECURSIVE MergeRange(_, _, _)
MergeRange(st, hi, lo) ==
    IF hi < lo THEN st
    ELSE IF hi = lo THEN MergeStep(st, hi)
    ELSE LET mid == (lo + hi) \div 2
             first == MergeRange(st, hi, mid + 1)
         IN IF Len(first.h) >= Len(st.h)
            THEN MergeRange(first, mid, lo) ELSE first

\* for (i=nodecount-1; i>0; i--)
MergeLoop(st, nodecount) == MergeRange(st, nodecount - 1, 1)

\* mutant: code generation started one bit down
RootLength_One == 0 + 1

\* the length and code huffman_build_tree starts code generation with
RootLength == 0
RootCode == 0

(***************************************************************************)
(* huffman_build_tree: returns [h, nodes, root, log].                      *)
(***************************************************************************)
huffman_build_tree(h, nodes, nodecount) ==
    IF nodecount = 0
    THEN [h |-> h, nodes |-> nodes, root |-> NoNode, log |-> <<>>]
    ELSE LET st == MergeLoop([h |-> h, nodes |-> nodes, log |-> <<>>],
                             nodecount)
             r == st.nodes[1]
         IN [h |-> huffman_generate_codes(st.h, r, RootLength, RootCode),
             nodes |-> st.nodes, root |-> r, log |-> st.log]


(***************************************************************************)
(* State of main().                                                        *)
(***************************************************************************)
VARIABLES
    pc,            \* position in main()
    input,         \* the bytes of the input file
    charmap,       \* unsigned char charmap[256]
    freq,          \* int frequencies[256]
    strings,       \* the string_list_t list, in list order
    heap,          \* the malloc'ed huffman_node_t records; a pointer is an index
    leaf_nodes,    \* huffman_node_t *leaf_nodes[256], the first symbol_count slots
    code_nodes,    \* huffman_node_t *code_nodes[256]
    root,          \* huffman_node_t *root
    merges,        \* history: what each round of huffman_build_tree combined
    table_output,  \* the records written to the table file
    data_output,   \* the chunks written to the data file
    err            \* the messages written to stderr

vars == <<pc, input, charmap, freq, strings, heap, leaf_nodes, code_nodes,
          root, merges, table_output, data_output, err>>

IdentityMap == [b \in Byte |-> b]

\* bytes the explored input files are made of: NUL, LF, 'A', 'B', backslash
InputAlphabet == {NUL, STRING_SEPARATOR, 65, 66, BACKSLASH}

\* character maps explored: the default f(c)=c, and one mapping 'B' to 'A'
CharMaps == {IdentityMap, [IdentityMap EXCEPT ![66] = 65]}

SeqsUpTo(S, n) == UNION {[1..k -> S] : k \in 0..n}

(***************************************************************************)
(* read_strings.  The FILE is the remaining input rest; fgetc takes its    *)
(* head or returns EOF, ungetc pushes a byte back (ungetc(EOF) does        *)
(* nothing).  st is [rest, eof, buf, fr, list].                            *)
(***************************************************************************)
fgetc(rest) == IF rest = <<>> THEN EOF ELSE Head(rest)

AfterGetc(rest) == IF rest = <<>> THEN rest ELSE Tail(rest)

\* mutant: the line escape left out
IsLineEscape_Never(d) == FALSE

\* the line-escape test applied to the byte d read after a backslash
IsLineEscape(d) == d = STRING_SEPARATOR

\* the inner while loop: one string into buf
RECURSIVE ReadOneString(_)
ReadOneString(st) ==
    LET c == fgetc(st.rest)
        r1 == AfterGetc(st.rest)
    IN IF c = EOF THEN [st EXCEPT !.eof = TRUE]
       ELSE IF c = STRING_SEPARATOR THEN [st EXCEPT !.rest = r1]
       ELSE LET d == fgetc(r1)
                store == [st EXCEPT !.rest = r1,
                                    !.buf = Append(st.buf, c),
                                    !.fr = [st.fr EXCEPT ![c] = @ + 1]]
            IN IF c = BACKSLASH
               THEN IF IsLineEscape(d)
                    THEN ReadOneString([st EXCEPT !.rest = AfterGetc(r1)])
                    ELSE ReadOneString([store EXCEPT !.eof = (d = EOF)])
               ELSE ReadOneString(store)

\* a new list element holding the first i bytes of buf
NewString(buf) == [text |-> buf, huff_data |-> <<>>, huff_size |-> 0]

\* the outer loop, while (!feof(in))
RECURSIVE ReadLoop(_)
ReadLoop(st) ==
    IF st.eof THEN st
    ELSE LET s1 == ReadOneString([st EXCEPT !.buf = <<>>])
         IN ReadLoop(IF Len(s1.buf) > 0
                     THEN [s1 EXCEPT !.list = Append(s1.list, NewString(s1.buf))]
                     ELSE s1)

read_strings(in) ==
    ReadLoop([rest |-> in, eof |-> FALSE, buf |-> <<>>,
              fr |-> [b \in Byte |-> 0], list |-> <<>>])

(***************************************************************************)
(* main(): creation of the leaf nodes, for (i=0; i<256; i++).              *)
(* st is [h, leaves, codes].                                               *)
(***************************************************************************)
\* the symbols that get a leaf
HasLeaf(fr, i) == fr[i] > 0

\* the body of the loop for one i
LeafStep(fr, st, i) ==
    IF HasLeaf(fr, i)
    THEN LET h1 == huffman_create_node(st.h, i, fr[i], NoNode, NoNode)
         IN [h |-> h1,
             leaves |-> Append(st.leaves, Len(h1)),
             codes |-> [st.codes EXCEPT ![i] = Len(h1)]]
    ELSE st

\* the loop body for i = lo, .., hi in this order
RECURSIVE LeafRange(_, _, _, _)
LeafRange(fr, st, lo, hi) ==
    IF lo > hi THEN st
    ELSE IF lo = hi THEN LeafStep(fr, st, lo)
    ELSE LET mid == (lo + hi) \div 2
             first == LeafRange(fr, st, lo, mid)
         IN IF Len(first.h) >= Len(st.h)
            THEN LeafRange(fr, first, mid + 1, hi) ELSE first

CreateLeafNodes(fr) ==
    LeafRange(fr, [h |-> <<>>, leaves |-> <<>>,
                   codes |-> [b \in Byte |-> NoNode]], 0, 255)


(***************************************************************************)
(* encode_strings.  text holds the bytes copied by read_strings; the C     *)
(* string ends at its first NUL byte (or at the terminator stored after    *)
(* the copied bytes).                                                      *)
(***************************************************************************)
RECURSIVE CStr(_)
CStr(text) ==
    IF text = <<>> \/ Head(text) = NUL THEN <<>>
    ELSE <<Head(text)>> \o CStr(Tail(text))

\* outcomes of (code >> i) & 1 when i >= 32, which C leaves undefined: the
\* shift count taken modulo 32, or the sign bit filling the word
ShiftOutcomes == {"mask", "fill"}

ShiftBit(c, i, ub) ==
    IF i < IntBits THEN BitAt(c, i)
    ELSE IF ub = "mask" THEN BitAt(c, i % IntBits)
    ELSE BitAt(c, IntBits - 1)

\* enc | (bit << bitnum) on an unsigned char
OrBit(enc, bit, bitnum) ==
    IF bit = 1 /\ (enc \div Pow2(bitnum)) % 2 = 0 THEN enc + Pow2(bitnum) ELSE enc

\* buf[len++] = enc, growing the buffer by 128 when it is full
PutByte(es) ==
    [es EXCEPT !.maxlen = IF Len(es.buf) = es.maxlen THEN @ + 128 ELSE @,
               !.buf = Append(es.buf, es.enc)]

\* what enc holds after a full byte was stored
EncAfterFlush == 0

\* for (i = node->code.length-1; i >= 0; i--); es is [enc, bitnum, buf, maxlen]
RECURSIVE EncodeBits(_, _, _, _)
EncodeBits(es, code, i, ub) ==
    IF i < 0 THEN es
    ELSE LET e1 == [es EXCEPT !.enc = OrBit(es.enc, ShiftBit(code, i, ub), es.bitnum),
                              !.bitnum = es.bitnum - 1]
         IN IF e1.bitnum < 0
            THEN EncodeBits([PutByte(e1) EXCEPT !.bitnum = 7, !.enc = EncAfterFlush],
                            code, i - 1, ub)
            ELSE EncodeBits(e1, code, i - 1, ub)

\* while (*p): a character without a node dereferences a null pointer
RECURSIVE EncodeText(_, _, _, _, _)
EncodeText(es, p, h, codes, ub) ==
    IF p = <<>> \/ es.crashed THEN es
    ELSE LET node == codes[Head(p)]
         IN IF node = NoNode THEN [es EXCEPT !.crashed = TRUE]
            ELSE EncodeText(EncodeBits(es, h[node].code, h[node].length - 1, ub),
                            Tail(p), h, codes, ub)

\* the state of enc, buf, maxlen a string's round starts from, given the
\* state the previous round left
StartString(es) == [es EXCEPT !.buf = <<>>, !.bitnum = 7]

\* write last few bits
FlushLast(es) == IF es.bitnum # 7 THEN PutByte(es) ELSE es

\* one round of the loop over the list
EncodeOne(es, string, h, codes, ub) ==
    FlushLast(EncodeText(StartString(es), CStr(string.text), h, codes, ub))

RECURSIVE EncodeList(_, _, _, _, _, _)
EncodeList(es, list, k, h, codes, ub) ==
    IF k > Len(list) \/ es.crashed THEN [es |-> es, list |-> list]
    ELSE LET e1 == EncodeOne(es, list[k], h, codes, ub)
         IN EncodeList(e1,
                       IF e1.crashed THEN list
                       ELSE [list EXCEPT ![k].huff_data = e1.buf,
                                         ![k].huff_size = Len(e1.buf)],
                       k + 1, h, codes, ub)

encode_strings(list, h, codes, ub) ==
    EncodeList([enc |-> 0, bitnum |-> 7, buf |-> <<>>, maxlen |-> 0,
                crashed |-> FALSE], list, 1, h, codes, ub)

(***************************************************************************)
(* write_huffman_codes: breadth-first walk with a work list; one record    *)
(* per node.  A label is the pair printed as @@node_<code>_<length>; the   *)
(* root carries no such label.                                             *)
(***************************************************************************)
NodeRecord(h, r, cm, node) ==
    LET n == h[node]
        label == IF node # r THEN <<n.code, n.length>> ELSE <<>>
    IN IF n.symbol # -1
       THEN [node |-> node, label |-> label, leaf |-> TRUE,
             symbol |-> cm[n.symbol], left |-> <<>>, right |-> <<>>]
       ELSE [node |-> node, label |-> label, leaf |-> FALSE, symbol |-> -1,
             left |-> <<Shl1(n.code), n.length + 1>>,
             right |-> <<Or1(Shl1(n.code)), n.length + 1>>]

\* One round of the while loop.  list holds every node ever put on the work
\* list, in order; current is the p-th of them, and the loop has ended when
\* p is past the tail.
WriteStep(h, r, cm, ws, p) ==
    IF p > Len(ws.list) THEN ws
    ELSE LET node == ws.list[p]
         IN [list |-> IF h[node].symbol # -1 THEN ws.list
                      ELSE ws.list \o <<h[node].left, h[node].right>>,
             out |-> Append(ws.out, NodeRecord(h, r, cm, node))]

\* the rounds p = lo, .., hi in this order
RECURSIVE WriteRange(_, _, _, _, _, _)
WriteRange(h, r, cm, ws, lo, hi) ==
    IF lo > hi THEN ws
    ELSE IF lo = hi THEN WriteStep(h, r, cm, ws, lo)
    ELSE LET mid == (lo + hi) \div 2
             first == WriteRange(h, r, cm, ws, lo, mid)
         IN IF Len(first.out) >= Len(ws.out)
            THEN WriteRange(h, r, cm, first, mid + 1, hi) ELSE first

\* the work list never holds more than the malloc'ed nodes
write_huffman_codes(h, r, cm) ==
    IF r = NoNode THEN <<>>
    ELSE WriteRange(h, r, cm, [list |-> <<r>>, out |-> <<>>], 1, Len(h)).out

(***************************************************************************)
(* write_huffman_strings and write_chunk.                                  *)
(***************************************************************************)
Take(s, n) == SubSeq(s, 1, IF n < Len(s) THEN n ELSE Len(s))

\* the comment: a quote, the text or its preview, a quote
StringComment(text) ==
    LET t == CStr(text)
    IN <<34>> \o (IF Len(t) < 40 THEN t ELSE Take(t, 37) \o <<46, 46, 46>>)
       \o <<34>>

\* the .db rows of write_chunk
ChunkRows(buf, size, cols) ==
    [i \in 1..(size \div cols) |-> SubSeq(buf, (i - 1) * cols + 1, i * cols)]
    \o (IF size % cols > 0
        THEN <<SubSeq(buf, size - (size % cols) + 1, size)>> ELSE <<>>)

write_huffman_strings(list) ==
    [k \in 1..Len(list) |->
        [label |-> k - 1, comment |-> StringComment(list[k].text),
         rows |-> ChunkRows(list[k].huff_data, list[k].huff_size, 16)]]

(***************************************************************************)
(* Frequency tables given to the tree builder directly.                    *)
(***************************************************************************)
\* every table giving the symbols 'A'.. a weight of 0..MaxWeight
SmallFreqs ==
    {[b \in Byte |-> IF b \in 65..(64 + MaxSyms) THEN f[b] ELSE 0] :
        f \in [65..(64 + MaxSyms) -> 0..MaxWeight]}

\* 129 symbols occurring once each
WideFreq == [b \in Byte |-> IF b >= 127 THEN 1 ELSE 0]

\* 67 symbols whose weights make two chains of depth 33 below the root
DeepWeights ==
    <<2, 3, 4, 5, 6, 7, 9, 13, 16, 22, 29, 38, 51, 67, 89, 118, 156, 207,
      274, 363, 481, 637, 844, 1118, 1481, 1962, 2599, 3443, 4561, 6042,
      8004, 10603, 14046, 18607, 24649, 32653, 43256, 57302, 75909, 100558,
      133211, 176467, 233769, 309678, 410236, 543447, 719914, 953683,
      1263361, 1673597, 2217044, 2936958, 3890641, 5154002, 6827599,
      9044643, 11981601, 15872242, 21026244, 27853843, 36898486, 48880087,
      64752329, 85778573, 113632416, 150530902, 199410989>>

DeepFreq ==
    [b \in Byte |-> IF b \in 33..(32 + Len(DeepWeights))
                    THEN DeepWeights[b - 32] ELSE 0]

FreqInputs == SmallFreqs \cup {WideFreq, DeepFreq}

(***************************************************************************)
(* Initial states.                                                         *)
(***************************************************************************)
InitRest ==
    /\ strings = <<>>
    /\ heap = <<>>
    /\ leaf_nodes = <<>>
    /\ code_nodes = [b \in Byte |-> NoNode]
    /\ root = NoNode
    /\ merges = <<>>
    /\ table_output = <<>>
    /\ data_output = <<>>
    /\ err = <<>>

\* main() about to read an input file
Init ==
    /\ pc = "read"
    /\ input \in SeqsUpTo(InputAlphabet, MaxInput)
    /\ charmap \in CharMaps
    /\ freq = [b \in Byte |-> 0]
    /\ InitRest

\* the tree builder and the table writer as functions of a frequency table
InitTree ==
    /\ pc = "leaves"
    /\ input = <<>>
    /\ charmap = IdentityMap
    /\ freq \in FreqInputs
    /\ InitRest

(***************************************************************************)
(* The steps of main().                                                    *)
(***************************************************************************)
ReadStrings ==
    /\ pc = "read"
    /\ LET r == read_strings(input)
       IN /\ freq' = r.fr
          /\ strings' = r.list
    /\ pc' = "leaves"
    /\ UNCHANGED <<input, charmap, heap, leaf_nodes, code_nodes, root, merges,
                   table_output, data_output, err>>

CreateLeaves ==
    /\ pc = "leaves"
    /\ LET r == CreateLeafNodes(freq)
       IN /\ heap' = r.h
          /\ leaf_nodes' = r.leaves
          /\ code_nodes' = r.codes
    /\ pc' = "build"
    /\ UNCHANGED <<input, charmap, freq, strings, root, merges, table_output,
                   data_output, err>>

BuildTree ==
    /\ pc = "build"
    /\ LET r == huffman_build_tree(heap, leaf_nodes, Len(leaf_nodes))
       IN /\ heap' = r.h
          /\ leaf_nodes' = r.nodes
          /\ root' = r.root
          /\ merges' = r.log
    /\ pc' = "encode"
    /\ UNCHANGED <<input, charmap, freq, strings, code_nodes, table_output,
                   data_output, err>>

EncodeStrings ==
    /\ pc = "encode"
    /\ \E ub \in ShiftOutcomes :
         LET r == encode_strings(strings, heap, code_nodes, ub)
         IN /\ strings' = r.list
            /\ pc' = IF r.es.crashed THEN "crash" ELSE "table"
    /\ UNCHANGED <<input, charmap, freq, heap, leaf_nodes, code_nodes, root,
                   merges, table_output, data_output, err>>

WriteHuffmanCodes ==
    /\ pc = "table"
    /\ table_output' = write_huffman_codes(heap, root, charmap)
    /\ pc' = "data"
    /\ UNCHANGED <<input, charmap, freq, strings, heap, leaf_nodes, code_nodes,
                   root, merges, data_output, err>>

WriteHuffmanStrings ==
    /\ pc = "data"
    /\ data_output' = write_huffman_strings(strings)
    /\ pc' = "done"
    /\ UNCHANGED <<input, charmap, freq, strings, heap, leaf_nodes, code_nodes,
                   root, merges, table_output, err>>

Next ==
    \/ ReadStrings
    \/ CreateLeaves
    \/ BuildTree
    \/ EncodeStrings
    \/ WriteHuffmanCodes
    \/ WriteHuffmanStrings

Spec == Init /\ [][Next]_vars

NextTree ==
    \/ CreateLeaves
    \/ BuildTree
    \/ EncodeStrings
    \/ WriteHuffmanCodes
    \/ WriteHuffmanStrings

TreeSpec == InitTree /\ [][NextTree]_vars

(***************************************************************************)
(* Input files with long lines: a run of 'A' of every length up to        *)
(* MaxText, ended by nothing, by a 'B', or by a line feed and a second     *)
(* string.                                                                 *)
(***************************************************************************)
LongTails == {<<>>, <<66>>, <<STRING_SEPARATOR, 66>>}

LongInputs == {[i \in 1..n |-> 65] \o tail : n \in 0..MaxText, tail \in LongTails}

\* main() about to read an input file with long lines
InitLong ==
    /\ pc = "read"
    /\ input \in LongInputs
    /\ charmap = IdentityMap
    /\ freq = [b \in Byte |-> 0]
    /\ InitRest

CommentSpec == InitLong /\ [][Next]_vars



(***************************************************************************)
(* Notions the properties are stated with.                                 *)
(***************************************************************************)
Encoded == pc \in {"table", "data", "done"}

Built == pc \in {"encode", "crash", "table", "data", "done"}

TableWritten == pc \in {"data", "done"}

\* the symbols that occur
Symbols == {b \in Byte : freq[b] > 0}

\* a text that is a C string as a whole
NoNul(text) == \A p \in 1..Len(text) : text[p] # NUL

\* the bits of a byte sequence, most significant bit of each byte first
BitsOf(bytes) ==
    [i \in 1..(8 * Len(bytes)) |->
        (bytes[((i - 1) \div 8) + 1] \div Pow2(7 - ((i - 1) % 8))) % 2]

\* Greedy decoding: walk from the root, one bit per interior node, emit the
\* symbol of the leaf reached, until count symbols are out; -1 marks bits
\* running out.
RECURSIVE DecodeFrom(_, _, _, _, _, _, _)
DecodeFrom(h, r, node, bits, pos, count, acc) ==
    IF count = 0 THEN acc
    ELSE IF h[node].symbol # -1
         THEN DecodeFrom(h, r, r, bits, pos, count - 1,
                         Append(acc, h[node].symbol))
    ELSE IF pos > Len(bits) THEN Append(acc, -1)
    ELSE DecodeFrom(h, r, IF bits[pos] = 0 THEN h[node].left ELSE h[node].right,
                    bits, pos + 1, count, acc)

Decode(h, r, bytes, count) == DecodeFrom(h, r, r, BitsOf(bytes), 1, count, <<>>)

\* the sum of the code lengths of the bytes of a text
RECURSIVE TotalBits(_)
TotalBits(text) ==
    IF text = <<>> THEN 0
    ELSE heap[code_nodes[Head(text)]].length + TotalBits(Tail(text))

CeilDiv8(n) == (n + 7) \div 8

(***************************************************************************)
(* C1.  Round trip for every string of a run: with at least two distinct   *)
(* symbols, greedily decoding the packed bytes of any string of the list   *)
(* with the tree, for as many symbols as the string has, gives back the    *)
(* string.  Stated for the strings free of NUL bytes, which encode_strings *)
(* reads to their end.                                                     *)
(***************************************************************************)
C1_RoundTripEveryString ==
    (Encoded /\ Cardinality(Symbols) >= 2) =>
        \A k \in 1..Len(strings) :
            NoNul(strings[k].text) =>
                Decode(heap, root, strings[k].huff_data, Len(strings[k].text))
                    = strings[k].text

(***************************************************************************)
(* C2.  Zero padding: for any string of the list whose total code-bit      *)
(* length B is no multiple of 8, the 8 - B mod 8 low-order bits of its     *)
(* last packed byte are zero.  Stated for the strings free of NUL bytes.   *)
(***************************************************************************)
C2_ZeroPaddingEveryString ==
    Encoded =>
        \A k \in 1..Len(strings) :
            LET B == TotalBits(strings[k].text)
                data == strings[k].huff_data
            IN (NoNul(strings[k].text) /\ B % 8 # 0) =>
                   /\ Len(data) > 0
                   /\ data[Len(data)] % Pow2(8 - (B % 8)) = 0

(***************************************************************************)
(* C3.  Packed size: huff_size of every string record is                   *)
(* ceil(total_bits / 8), total_bits being the sum of the code lengths of   *)
(* all the bytes stored in the record.                                     *)
(***************************************************************************)
C3_PackedSize ==
    Encoded =>
        \A k \in 1..Len(strings) :
            /\ strings[k].huff_size = CeilDiv8(TotalBits(strings[k].text))
            /\ Len(strings[k].huff_data) = strings[k].huff_size


(***************************************************************************)
(* Reference Huffman construction on the bag of leaf weights: take the     *)
(* two least weights out of the bag, put their sum in, and note the sum.   *)
(***************************************************************************)
LeafBag ==
    [w \in {freq[b] : b \in Symbols} |-> Cardinality({b \in Symbols : freq[b] = w})]

BagMin(B) == CHOOSE w \in BagToSet(B) : \A v \in BagToSet(B) : w <= v

RefStep(st) ==
    LET a == BagMin(st.bag)
        B1 == st.bag (-) SetToBag({a})
        b == BagMin(B1)
        B2 == B1 (-) SetToBag({b})
    IN [bag |-> B2 (+) SetToBag({a + b}), sums |-> Append(st.sums, a + b)]

RECURSIVE RefSteps(_, _)
RefSteps(st, n) ==
    IF n <= 0 THEN st
    ELSE IF n = 1 THEN RefStep(st)
    ELSE LET first == RefSteps(st, n \div 2)
         IN IF Len(first.sums) >= Len(st.sums)
            THEN RefSteps(first, n - (n \div 2)) ELSE first

RefMergeSums ==
    RefSteps([bag |-> LeafBag, sums |-> <<>>], Cardinality(Symbols) - 1).sums

(***************************************************************************)
(* The least weighted length of any prefix code for the leaves in S, by    *)
(* trying every way to split S below a common parent.                      *)
(***************************************************************************)
RECURSIVE SumFreq(_)
SumFreq(S) ==
    IF S = {} THEN 0
    ELSE LET b == CHOOSE x \in S : TRUE IN freq[b] + SumFreq(S \ {b})

SetMin(S) == CHOOSE w \in S : \A v \in S : w <= v

RECURSIVE OptCost(_)
OptCost(S) ==
    IF Cardinality(S) <= 1 THEN 0
    ELSE LET b == CHOOSE x \in S : TRUE
         IN SumFreq(S) +
            SetMin({OptCost(T \cup {b}) + OptCost(S \ (T \cup {b})) :
                        T \in (SUBSET (S \ {b})) \ {S \ {b}}})

\* the weighted code length of the tree built
RECURSIVE WeightedLength(_)
WeightedLength(S) ==
    IF S = {} THEN 0
    ELSE LET b == CHOOSE x \in S : TRUE
         IN freq[b] * heap[code_nodes[b]].length + WeightedLength(S \ {b})

(***************************************************************************)
(* C4.  Weight-optimality: for two or more leaves, when                    *)
(* huffman_build_tree has returned, every merge combined two nodes no      *)
(* heavier than any node left in the working set into an interior node     *)
(* whose weight is their sum, the sums are those of the reference Huffman  *)
(* construction, and (for up to MaxSyms leaves, where every code tree is   *)
(* tried) the weighted code length is the least any prefix code achieves.  *)
(***************************************************************************)
C4_WeightOptimal ==
    (pc = "encode" /\ Cardinality(Symbols) >= 2) =>
        LET n == Cardinality(Symbols)
        IN /\ Len(merges) = n - 1
           /\ Len(heap) = 2 * n - 1
           /\ \A m \in 1..Len(merges) :
                /\ merges[m].sum = merges[m].w1 + merges[m].w2
                /\ \A x \in 1..Len(merges[m].rest) :
                     /\ merges[m].w1 <= merges[m].rest[x]
                     /\ merges[m].w2 <= merges[m].rest[x]
                /\ heap[n + m].symbol = -1
                /\ heap[n + m].weight = merges[m].sum
                /\ heap[n + m].weight =
                     heap[heap[n + m].left].weight + heap[heap[n + m].right].weight
           /\ [m \in 1..Len(merges) |-> merges[m].sum] = RefMergeSums
           /\ root = Len(heap)
           /\ (n <= MaxSyms => WeightedLength(Symbols) = OptCost(Symbols))

\* a tree of three or more leaves in which two leaves got codes of unequal
\* length and some merge left a heavier node in the working set
C4_Witness ==
    /\ pc = "encode"
    /\ Cardinality(Symbols) >= 3
    /\ \E a, b \in Symbols :
         heap[code_nodes[a]].length < heap[code_nodes[b]].length
    /\ \E m \in 1..Len(merges) : \E x \in 1..Len(merges[m].rest) :
         merges[m].rest[x] > merges[m].w1 /\ merges[m].rest[x] > merges[m].w2


(***************************************************************************)
(* Paths and code words.                                                   *)
(***************************************************************************)
\* every node below (and including) node, with its path from the root:
\* 0 for a step to the left child, 1 for a step to the right child
RECURSIVE PathsFrom(_, _, _)
PathsFrom(h, node, path) ==
    IF h[node].symbol # -1 THEN {<<node, path>>}
    ELSE {<<node, path>>}
         \cup PathsFrom(h, h[node].left, Append(path, 0))
         \cup PathsFrom(h, h[node].right, Append(path, 1))

TreePaths == IF root = NoNode THEN {} ELSE PathsFrom(heap, root, <<>>)

LeafPaths == {np \in TreePaths : heap[np[1]].symbol # -1}

\* the code word of a node as encode_strings emits it: bits length-1 .. 0
CodeBits(node, ub) ==
    [i \in 1..heap[node].length |->
        ShiftBit(heap[node].code, heap[node].length - i, ub)]

IsPrefix(s, t) == Len(s) <= Len(t) /\ SubSeq(t, 1, Len(s)) = s

(***************************************************************************)
(* C5.  Prefix code: when huffman_build_tree has returned, every leaf's    *)
(* (code, length) is its root-to-leaf path read as left=0/right=1, most    *)
(* significant bit first, and no leaf's code word is a prefix of another   *)
(* leaf's code word.                                                       *)
(***************************************************************************)
C5_PrefixCode ==
    (pc = "encode" /\ root # NoNode) =>
        /\ \A np \in LeafPaths :
             /\ heap[np[1]].length = Len(np[2])
             /\ \A ub \in ShiftOutcomes : CodeBits(np[1], ub) = np[2]
        /\ \A a, b \in {np[1] : np \in LeafPaths} :
             a # b => \A ub \in ShiftOutcomes :
                         ~IsPrefix(CodeBits(a, ub), CodeBits(b, ub))


(***************************************************************************)
(* The node table as the assembler lays it out: record p (two bytes) is    *)
(* at byte offset 2 * (p - 1).                                             *)
(***************************************************************************)
\* the positions of the records a label names
LabelPositions(t, label) == {q \in 1..Len(t) : t[q].label = label}

\* the position of the record written for a node
NodePosition(t, node) == CHOOSE q \in 1..Len(t) : t[q].node = node

\* distance in bytes from record p to record q
ByteDistance(p, q) == 2 * (q - p)

\* some interior record has a child further away than one byte can say
OffsetOverflow(t) ==
    \E p \in 1..Len(t) :
        /\ ~t[p].leaf
        /\ \/ ByteDistance(p, NodePosition(t, heap[t[p].node].left)) > MaxOffset
           \/ ByteDistance(p, NodePosition(t, heap[t[p].node].right)) > MaxOffset

(***************************************************************************)
(* C8.  Relative-offset overflow is reported: when the node table of a     *)
(* tree in which a child record lies more than MaxOffset bytes after its   *)
(* interior record has been written, an error has been reported.           *)
(***************************************************************************)
C8_OffsetOverflowReported ==
    (TableWritten /\ OffsetOverflow(write_huffman_codes(heap, root, charmap)))
        => err # <<>>

(***************************************************************************)
(* C10.  Node-table well-formedness: one record per tree node, root first, *)
(* in order of non-decreasing code length; no two nodes share a            *)
(* (code, length) label; each label an interior record refers to names     *)
(* exactly one record, that of its left resp. right child, written after   *)
(* the interior record.                                                    *)
(***************************************************************************)
C10_NodeTableWellFormed ==
    (TableWritten /\ root # NoNode) =>
        LET t == table_output
        IN /\ Len(t) = Len(heap)
           /\ {t[p].node : p \in 1..Len(t)} = 1..Len(heap)
           /\ t[1].node = root
           /\ \A p \in 1..(Len(t) - 1) :
                heap[t[p].node].length <= heap[t[p + 1].node].length
           /\ \A a, b \in 1..Len(heap) :
                a # b => <<heap[a].code, heap[a].length>>
                           # <<heap[b].code, heap[b].length>>
           /\ \A p \in 1..Len(t) :
                ~t[p].leaf =>
                   /\ LabelPositions(t, t[p].left)
                        = {NodePosition(t, heap[t[p].node].left)}
                   /\ LabelPositions(t, t[p].right)
                        = {NodePosition(t, heap[t[p].node].right)}
                   /\ \A q \in LabelPositions(t, t[p].left)
                             \cup LabelPositions(t, t[p].right) : q > p


(***************************************************************************)
(* Reference splitting of an input: delete every backslash-delimiter pair  *)
(* scanning left to right, split at the delimiters left, drop the empty    *)
(* pieces.                                                                 *)
(***************************************************************************)
RECURSIVE DeleteEscapes(_)
DeleteEscapes(s) ==
    IF s = <<>> THEN <<>>
    ELSE IF Len(s) >= 2 /\ s[1] = BACKSLASH /\ s[2] = STRING_SEPARATOR
         THEN DeleteEscapes(SubSeq(s, 3, Len(s)))
    ELSE <<s[1]>> \o DeleteEscapes(Tail(s))

\* the delimiter positions of s, and the pieces between them
Pieces(s) ==
    LET cuts == {0, Len(s) + 1} \cup {p \in 1..Len(s) : s[p] = STRING_SEPARATOR}
        adjacent == {ab \in cuts \X cuts :
                        /\ ab[1] < ab[2]
                        /\ \A d \in cuts : ~(ab[1] < d /\ d < ab[2])}
    IN {<<ab[1], SubSeq(s, ab[1] + 1, ab[2] - 1)>> : ab \in adjacent}

\* the non-empty pieces in input order
RefStrings(in) ==
    LET s == DeleteEscapes(in)
        kept == {pp \in Pieces(s) : pp[2] # <<>>}
        rank(pp) == Cardinality({qq \in kept : qq[1] <= pp[1]})
    IN [k \in 1..Cardinality(kept) |->
           (CHOOSE pp \in kept : rank(pp) = k)[2]]

Texts == [k \in 1..Len(strings) |-> strings[k].text]

\* the number of bytes of the strings in ss that f maps to v
CountMapped(ss, f, v) ==
    Cardinality({kp \in {<<k, p>> : k \in 1..Len(ss), p \in 1..MaxInput + 1} :
                    kp[2] <= Len(ss[kp[1]]) /\ f[ss[kp[1]][kp[2]]] = v})

(***************************************************************************)
(* C6.  Character map applied before counting and encoding: freq[v] is     *)
(* the number of stored input bytes b with charmap(b) = v, the stored      *)
(* strings consist of the remapped bytes, and no two leaf records of the   *)
(* node table carry the same symbol value.                                 *)
(***************************************************************************)
C6_CharmapBeforeCounting ==
    (pc # "read") =>
        /\ \A v \in Byte : freq[v] = CountMapped(RefStrings(input), charmap, v)
        /\ Texts = [k \in 1..Len(RefStrings(input)) |->
                      [p \in 1..Len(RefStrings(input)[k]) |->
                          charmap[RefStrings(input)[k][p]]]]
        /\ TableWritten =>
             \A p, q \in 1..Len(table_output) :
                (p # q /\ table_output[p].leaf /\ table_output[q].leaf)
                    => table_output[p].symbol # table_output[q].symbol

(***************************************************************************)
(* C7.  String splitting with escape: when read_strings has returned, the  *)
(* strings are the input with every backslash-delimiter pair deleted,      *)
(* split at the remaining delimiters, empty pieces dropped, in input       *)
(* order; freq[b] is the number of occurrences of b in the strings.        *)
(***************************************************************************)
C7_SplitWithEscape ==
    (pc = "leaves") =>
        /\ Texts = RefStrings(input)
        /\ \A b \in Byte : freq[b] = CountMapped(Texts, IdentityMap, b)
        /\ \A k \in 1..Len(strings) :
             strings[k].huff_data = <<>> /\ strings[k].huff_size = 0

\* the input A \ LF B read as the one string AB: the escape was taken and the
\* last string had no delimiter after it
C7_Witness ==
    /\ pc = "leaves"
    /\ input = <<65, BACKSLASH, STRING_SEPARATOR, 66>>
    /\ Texts = << <<65, 66>> >>
    /\ freq[65] = 1 /\ freq[66] = 1 /\ freq[BACKSLASH] = 0

Ellipsis == <<46, 46, 46>>

Quote == <<34>>

\* what a comment shows between its quotes
Visible(comment) == SubSeq(comment, 2, Len(comment) - 1)

EndsInEllipsis(v) ==
    /\ Len(v) >= Len(Ellipsis)
    /\ SubSeq(v, Len(v) - Len(Ellipsis) + 1, Len(v)) = Ellipsis

PreviewOf(text, comment) ==
    LET v == Visible(comment)
    IN /\ Len(comment) >= 2
       /\ SubSeq(comment, 1, 1) = Quote
       /\ SubSeq(comment, Len(comment), Len(comment)) = Quote
       /\ Len(text) <= 40 => v = text
       /\ v # text =>
            /\ Len(text) > 40
            /\ Len(v) <= 40
            /\ EndsInEllipsis(v)

C11_CommentPreview ==
    pc = "done" =>
        /\ Len(data_output) = Len(strings)
        /\ \A k \in 1..Len(strings) :
               PreviewOf(strings[k].text, data_output[k].comment)


====
